---- MODULE Spec2Model ----
(***************************************************************************)
(* The EditTag widget of web/src/components/edit-tag/index.tsx.            *)
(*                                                                         *)
(* A string is a sequence of one-character strings, so that split(';'),    *)
(* trim() and includes() are computed character by character.              *)
(* The parent applies every sequence handed to onChange as the next value  *)
(* prop; when the onChange prop is absent the value prop never changes.    *)
(***************************************************************************)
EXTENDS Naturals, Sequences, FiniteSets

\* Longest text the user types into the input.
MaxLen == 3

\* The user types no text whose commit would make the collection longer.
MaxTags == 2

\* The characters the user types: a letter, white space, the delimiter.
Chars == {"a", " ", ";"}

\* Keys of the keydown event.
Keys == {"Enter", "a"}

VARIABLES
    value,            \* prop value: the tag collection, owned by the parent
    onChangeDefined,  \* whether the prop onChange is present
    inputVisible,     \* useState(false)
    inputValue,       \* useState('')
    console,          \* what the last handler run logged
    onChangeCalls,    \* the arguments of the onChange calls of the last handler run
    confirms          \* runs of handleInputConfirm since the last showInput

vars == <<value, onChangeDefined, inputVisible, inputValue, console,
          onChangeCalls, confirms>>

----------------------------------------------------------------------------
\* Helpers on sequences.

Range(s) == {s[i] : i \in 1..Len(s)}

BoundedSeq(S, n) == UNION {[1..k -> S] : k \in 0..n}

NoDuplicates(s) == \A i, j \in 1..Len(s) : s[i] = s[j] => i = j

Texts == BoundedSeq(Chars, MaxLen)

\* Labels a parent can hold: non-empty, trimmed, without the delimiter.
Labels ==
    {t \in Texts : /\ t # <<>>
                   /\ ";" \notin Range(t)
                   /\ t[1] # " "
                   /\ t[Len(t)] # " "}

----------------------------------------------------------------------------
\* String.prototype.split(';'), String.prototype.trim(), Array.prototype.includes

RECURSIVE split(_)
split(s) ==
    IF ";" \notin Range(s)
    THEN <<s>>
    ELSE LET k == CHOOSE i \in 1..Len(s) :
                      s[i] = ";" /\ \A j \in 1..(i - 1) : s[j] # ";"
         IN  <<SubSeq(s, 1, k - 1)>> \o split(SubSeq(s, k + 1, Len(s)))

RECURSIVE trimStart(_)
trimStart(s) ==
    IF s # <<>> /\ Head(s) = " " THEN trimStart(Tail(s)) ELSE s

RECURSIVE trimEnd(_)
trimEnd(s) ==
    IF s # <<>> /\ s[Len(s)] = " " THEN trimEnd(SubSeq(s, 1, Len(s) - 1)) ELSE s

includes(arr, x) == \E i \in 1..Len(arr) : arr[i] = x

\* A string in a condition: '' is falsy, every other string truthy.
truthyAlways(s) == TRUE

truthy(s) == s # <<>>

\* trim() that forgets the trailing white space.
trimLeadingOnly(s) == trimStart(s)

trim(s) == trimEnd(trimStart(s))

\* split and trim of every text the user can type, computed once.
splitOf == [t \in Texts |-> split(t)]

trimOf == [t \in Texts |-> trim(t)]

\* The filter predicate without the includes test.
keepTagNonEmpty(tag, val) == truthy(tag)

\* The predicate of .filter in handleInputConfirm.
keepTag(tag, val) == truthy(tag) /\ ~includes(val, tag)

\* const newTags = inputValue.split(';').map(trim).filter(...)
confirmNewTags(text, val) ==
    LET pieces  == splitOf[text]
        trimmed == [i \in 1..Len(pieces) |-> trimOf[pieces[i]]]
    IN  SelectSeq(trimmed, LAMBDA tag : keepTag(tag, val))

\* const newTags = value?.filter((tag) => tag !== removedTag)
closeNewTags(val, removedTag) ==
    SelectSeq(val, LAMBDA tag : tag # removedTag)

\* A render that keeps the input whatever inputVisible is.
renderedInputAlways == "Input"

\* What is rendered in the first slot of the widget.
rendered == IF inputVisible THEN "Input" ELSE "Button"

Silent(op) ==
    [op |-> op, removedTag |-> <<>>, inputValue |-> <<>>, value |-> <<>>,
     newTags |-> <<>>]

----------------------------------------------------------------------------
Init ==
    /\ value \in {s \in BoundedSeq(Labels, MaxTags) : NoDuplicates(s)}
    /\ onChangeDefined \in BOOLEAN
    /\ inputVisible = FALSE
    /\ inputValue = <<>>
    /\ console = Silent("mount")
    /\ onChangeCalls = <<>>
    /\ confirms = 0

\* onChange?.(tags): the parent stores the proposed sequence.
callOnChange(tags) ==
    IF onChangeDefined
    THEN /\ value' = tags
         /\ onChangeCalls' = <<tags>>
    ELSE /\ value' = value
         /\ onChangeCalls' = <<>>

\* A handleClose that also closes the input.
handleCloseHidesInput(removedTag) ==
    /\ includes(value, removedTag)
    /\ LET newTags == closeNewTags(value, removedTag)
       IN  /\ console' = [op |-> "handleClose", removedTag |-> removedTag,
                          inputValue |-> <<>>, value |-> value,
                          newTags |-> newTags]
           /\ callOnChange(newTags)
    /\ inputVisible' = FALSE
    /\ UNCHANGED <<onChangeDefined, inputValue, confirms>>

\* The X of a chip is clicked.
handleClose(removedTag) ==
    /\ includes(value, removedTag)
    /\ LET newTags == closeNewTags(value, removedTag)
       IN  /\ console' = [op |-> "handleClose", removedTag |-> removedTag,
                          inputValue |-> <<>>, value |-> value,
                          newTags |-> newTags]
           /\ callOnChange(newTags)
    /\ UNCHANGED <<onChangeDefined, inputVisible, inputValue, confirms>>

\* A showInput whose button stays rendered next to the input.
showInputUnguarded ==
    /\ inputVisible' = TRUE
    /\ console' = Silent("showInput")
    /\ onChangeCalls' = <<>>
    /\ confirms' = 0
    /\ UNCHANGED <<value, onChangeDefined, inputValue>>

\* The add button is clicked; the button is rendered only while the input is not.
showInput ==
    /\ rendered = "Button"
    /\ inputVisible' = TRUE
    /\ console' = Silent("showInput")
    /\ onChangeCalls' = <<>>
    /\ confirms' = 0
    /\ UNCHANGED <<value, onChangeDefined, inputValue>>

\* What one keystroke makes of the text of the input.
typed(text) ==
    {Append(text, c) : c \in IF Len(text) < MaxLen THEN Chars ELSE {}}
        \cup (IF text = <<>> THEN {} ELSE {SubSeq(text, 1, Len(text) - 1)})

\* onChange of the input.
handleInputChange(text) ==
    /\ rendered = "Input"
    /\ Len(value) + Len(confirmNewTags(text, value)) <= MaxTags
    /\ inputValue' = text
    /\ console' = Silent("handleInputChange")
    /\ onChangeCalls' = <<>>
    /\ UNCHANGED <<value, onChangeDefined, inputVisible, confirms>>

\* A cleanup that forgets setInputValue('').
confirmCleanupKeepsText ==
    /\ inputVisible' = FALSE
    /\ inputValue' = inputValue

\* A cleanup that forgets setInputVisible(false).
confirmCleanupKeepsInput ==
    /\ inputVisible' = inputVisible
    /\ inputValue' = <<>>

\* setInputVisible(false); setInputValue('');
confirmCleanup ==
    /\ inputVisible' = FALSE
    /\ inputValue' = <<>>

handleInputConfirm ==
    /\ IF truthy(inputValue)
       THEN \E newTags \in {confirmNewTags(inputValue, value)} :
                /\ console' = [op |-> "handleInputConfirm", removedTag |-> <<>>,
                               inputValue |-> inputValue, value |-> value,
                               newTags |-> newTags]
                /\ callOnChange(value \o newTags)
       ELSE /\ console' = [op |-> "handleInputConfirm", removedTag |-> <<>>,
                           inputValue |-> inputValue, value |-> value,
                           newTags |-> <<>>]
            /\ value' = value
            /\ onChangeCalls' = <<>>
    /\ confirmCleanup
    /\ confirms' = confirms + 1
    /\ UNCHANGED onChangeDefined

\* onBlur of the input.
onBlur ==
    /\ rendered = "Input"
    /\ handleInputConfirm

\* onKeyDown of the input.
onKeyDown(key) ==
    /\ rendered = "Input"
    /\ IF key = "Enter" THEN handleInputConfirm ELSE UNCHANGED vars

Next ==
    \/ \E removedTag \in Range(value) : handleClose(removedTag)
    \/ showInput
    \/ \E text \in typed(inputValue) : handleInputChange(text)
    \/ onBlur
    \/ \E key \in Keys : onKeyDown(key)

Spec == Init /\ [][Next]_vars

----------------------------------------------------------------------------
\* The statements of the specification, written without the operators above:
\* the pieces of a text are located by the positions of its delimiters.

PieceStarts(T) == {1} \cup {k + 1 : k \in {i \in 1..Len(T) : T[i] = ";"}}

NthStart(T, n) ==
    CHOOSE i \in PieceStarts(T) :
        Cardinality({j \in PieceStarts(T) : j < i}) = n - 1

PieceEnd(T, i) ==
    CHOOSE j \in (i - 1)..Len(T) :
        /\ j = Len(T) \/ T[j + 1] = ";"
        /\ \A k \in i..j : T[k] # ";"

Stripped(u) ==
    LET ns == {i \in 1..Len(u) : u[i] # " "}
    IN  IF ns = {}
        THEN <<>>
        ELSE SubSeq(u, CHOOSE i \in ns : \A j \in ns : i <= j,
                       CHOOSE i \in ns : \A j \in ns : i >= j)

Candidates(T) ==
    [n \in 1..Cardinality(PieceStarts(T)) |->
        Stripped(SubSeq(T, NthStart(T, n), PieceEnd(T, NthStart(T, n))))]

Survivors(S, T) ==
    SelectSeq(Candidates(T), LAMBDA c : c # <<>> /\ c \notin Range(S))

Confirmed == console.op = "handleInputConfirm"

Closed == console.op = "handleClose"

\* C1: the tag collection never holds a duplicate label nor an empty label.
C1_NoDuplicateNoEmpty ==
    /\ NoDuplicates(value)
    /\ <<>> \notin Range(value)

C3_RemoveExactlyOne ==
    (Closed /\ onChangeCalls # <<>>) =>
        LET S == console.value
            L == console.removedTag
            R == onChangeCalls[1]
        IN  /\ Len(R) = Len(S) - 1
            /\ \E k \in 1..Len(S) :
                   /\ S[k] = L
                   /\ R = SubSeq(S, 1, k - 1) \o SubSeq(S, k + 1, Len(S))

NoSurvivorCommit ==
    /\ Confirmed
    /\ console.inputValue # <<>>
    /\ Survivors(console.value, console.inputValue) = <<>>

\* C4 as stated: a commit without a surviving candidate invokes no callback
\* and leaves the collection unchanged.
C4_NoCallbackWithoutSurvivor ==
    NoSurvivorCommit => (onChangeCalls = <<>> /\ value = console.value)

\* C4 as amended: a commit of a non-empty text without a surviving candidate
\* invokes the callback, when there is one, exactly once with a sequence equal
\* to the current collection, and leaves the collection unchanged.
C4_UnchangedWithoutSurvivor ==
    NoSurvivorCommit =>
        /\ value = console.value
        /\ onChangeCalls = IF onChangeDefined THEN <<console.value>> ELSE <<>>

C4_Witness ==
    /\ NoSurvivorCommit
    /\ onChangeDefined
    /\ \E i \in 1..Len(console.inputValue) : console.inputValue[i] = "a"
    /\ \E i \in 1..Len(console.inputValue) : console.inputValue[i] = ";"

\* C5: a commit of the empty text invokes no callback and leaves the input
\* hidden and the pending text empty.
C5_EmptyCommit ==
    (Confirmed /\ console.inputValue = <<>>) =>
        /\ onChangeCalls = <<>>
        /\ value = console.value
        /\ ~inputVisible
        /\ inputValue = <<>>

C5_Witness ==
    /\ Confirmed
    /\ console.inputValue = <<>>
    /\ onChangeDefined
    /\ value # <<>>

\* C6: every commit ends with the input hidden and the pending text empty.
C6_CommitCleansUp ==
    Confirmed => (~inputVisible /\ inputValue = <<>> /\ rendered = "Button")

C6_Witness ==
    /\ Confirmed
    /\ ~onChangeDefined
    /\ console.inputValue # <<>>
    /\ console.newTags # <<>>
    /\ value = console.value

\* C7: a handler run invokes onChange at most once, and between two reveals
\* handleInputConfirm runs at most once: after it the input is gone, so that
\* neither blur nor Enter reaches it again.
C7_AtMostOneCall ==
    /\ Len(onChangeCalls) <= 1
    /\ confirms <= 1
    /\ confirms = 1 => rendered = "Button"

C7_Witness ==
    /\ Confirmed
    /\ confirms = 1
    /\ Len(onChangeCalls) = 1
    /\ Len(value) > Len(console.value)

\* C8: the widget starts Idle; reveal is enabled only in Idle and leads to
\* Editing; commit and edit are enabled only in Editing and commit leads to
\* Idle; one of button and input is rendered, never both; in every state a
\* transition between the two states is enabled.  The state before any
\* handler has run is the one logged as "mount"; the state right after a
\* handler is the one that carries its log.
C8_TwoStateMachine ==
    /\ console.op = "mount" => ~inputVisible
    /\ rendered \in {"Button", "Input"}
    /\ inputVisible => ~ENABLED showInput
    /\ ~inputVisible =>
          /\ ENABLED showInput
          /\ ~ENABLED (onBlur \/ onKeyDown("Enter"))
          /\ ~ENABLED (\E text \in typed(inputValue) : handleInputChange(text))
    /\ inputVisible => ENABLED (onBlur \/ onKeyDown("Enter"))
    /\ console.op = "showInput" => inputVisible
    /\ Confirmed => ~inputVisible

C8_Witness ==
    /\ Confirmed
    /\ console.value # value
    /\ ~inputVisible
    /\ ENABLED showInput

\* C9: while the input is hidden the pending text is empty.
C9_IdleHasNoText ==
    ~inputVisible => inputValue = <<>>

C9_Witness ==
    /\ ~inputVisible
    /\ Confirmed
    /\ console.inputValue # <<>>

\* C10: remove leaves the visibility flag and the pending text as they are;
\* reveal and edit invoke no callback and leave the collection as it is.
C10_Frames ==
    [][/\ console'.op = "handleClose" =>
            UNCHANGED <<inputVisible, inputValue>>
       /\ console'.op \in {"showInput", "handleInputChange"} =>
            (value' = value /\ onChangeCalls' = <<>>)]_vars

C10_Witness ==
    /\ Closed
    /\ inputVisible
    /\ inputValue # <<>>
    /\ Len(onChangeCalls) = 1

====
